---- MODULE Spec2Model ----
(***************************************************************************)
(* A model of src/utils.py, the helper module of the NYC congestion        *)
(* pricing analysis: the three sample-data generators, the before/after    *)
(* statistics and the console summary.                                     *)
(*                                                                         *)
(* Numbers.  Measurements are floats in the source.  The generators' model *)
(* keeps them in fixed point: an integer n stands for n / Unit.  int() is  *)
(* truncation of n / Unit.  A timestamp is a whole number of hours, the    *)
(* proleptic Gregorian day ordinal times 24 plus the hour: pandas keeps    *)
(* nanoseconds, and every timestamp of the program is a whole hour.  The   *)
(* statistics' model uses exact fractions extended with nan and the two    *)
(* infinities; the rounding of float64 operations is not modelled.         *)
(*                                                                         *)
(* Randomness.  numpy's global random source is program state: the         *)
(* variable rng.  It starts in any state (numpy seeds it from the          *)
(* operating system) and every draw advances it.                           *)
(***************************************************************************)
EXTENDS Integers, Sequences, FiniteSets, TLC

VARIABLES rng,      \* state of numpy's global random source
          call,     \* the call made last: function name and arguments
          ret,      \* what that call returned or raised
          stdout    \* the lines that call printed

vars == <<rng, call, ret, stdout>>

-----------------------------------------------------------------------------
(* Bounds of the model *)

\* fixed-point resolution: the value of an integer n is n / Unit
Unit == 100
\* number of states of the random source
RngMod == 16
\* longest date range generated, in days
MaxSpanDays == 1
\* longest before or after sample
MaxSampleLen == 3
\* most rows of a summary table
MaxRows == 4

-----------------------------------------------------------------------------
(* Arithmetic helpers *)

Max(a, b) == IF a >= b THEN a ELSE b

Abs(a) == IF a < 0 THEN -a ELSE a

\* floor(a * n / d) for d > 0, without forming a * n
MulDiv(a, n, d) == (a \div d) * n + ((a % d) * n) \div d

\* Python's int() on a fixed-point value: truncation toward zero
PyInt(x) == IF x >= 0 THEN x \div Unit ELSE -((-x) \div Unit)

-----------------------------------------------------------------------------
(* Calendar: pandas Timestamp, date_range and the .dt accessors *)

IsLeap(y) == (y % 4 = 0 /\ y % 100 # 0) \/ y % 400 = 0

DaysBeforeYear(y) ==
    LET p == y - 1 IN p * 365 + p \div 4 - p \div 100 + p \div 400

DaysBeforeMonth(y, m) ==
    <<0, 31, 59, 90, 120, 151, 181, 212, 243, 273, 304, 334>>[m]
        + (IF m > 2 /\ IsLeap(y) THEN 1 ELSE 0)

\* a date string 'YYYY-MM-DD' is the tuple <<YYYY, MM, DD>>
ToOrdinal(d) == DaysBeforeYear(d[1]) + DaysBeforeMonth(d[1], d[2]) + d[3]

\* pd.Timestamp('YYYY-MM-DD'): midnight of that day, in hours
Timestamp(d) == ToOrdinal(d) * 24

YearOf(ord) ==
    LET q == (ord * 400) \div 146097
    IN  CHOOSE y \in q .. q + 2 :
            DaysBeforeYear(y) < ord /\ ord <= DaysBeforeYear(y + 1)

\* Timestamp.month
MonthOf(ts) ==
    LET ord == ts \div 24
        y   == YearOf(ord)
        doy == ord - DaysBeforeYear(y)
    IN  CHOOSE m \in 1 .. 12 :
            /\ DaysBeforeMonth(y, m) < doy
            /\ (m = 12 \/ doy <= DaysBeforeMonth(y, m + 1))

\* Timestamp.hour
HourOf(ts) == ts % 24

\* Timestamp.dayofweek: Monday is 0
DayOfWeek(ts) == ((ts \div 24) + 6) % 7

\* Timestamp.day_name()
DayName(ts) ==
    <<"Monday", "Tuesday", "Wednesday", "Thursday", "Friday", "Saturday",
      "Sunday">>[DayOfWeek(ts) + 1]

\* date_range as it would be with the end excluded
date_range_end_excluded(start, end, step) ==
    LET n == IF end <= start THEN 0 ELSE (end - start + step - 1) \div step
    IN  [k \in 1 .. n |-> start + (k - 1) * step]

\* pd.date_range(start, end, freq): start, start + step, ... while <= end
date_range(start, end, step) ==
    LET n == IF end < start THEN 0 ELSE (end - start) \div step + 1
    IN  [k \in 1 .. n |-> start + (k - 1) * step]

\* the policy start, pd.Timestamp('2023-06-01')
congestion_start == Timestamp(<<2023, 6, 1>>)

\* df[flag].map({True: 'After CP', False: 'Before CP'})
PeriodLabel(flag) == IF flag THEN "After CP" ELSE "Before CP"

\* the flag as it would be with the policy start itself counted as before
CongestionPricingStrict(ts) == ts > Timestamp(<<2023, 6, 1>>)

\* df[col] >= pd.Timestamp('2023-06-01')
CongestionPricing(ts) == ts >= Timestamp(<<2023, 6, 1>>)

-----------------------------------------------------------------------------
(* The random source and np.random.normal *)

\* standard deviates a draw can take; a normal variable can take any real
Deviates ==
    << [n |-> 0,   d |-> 1],   [n |-> 27,  d |-> 64],  [n |-> -25, d |-> 1],
       [n |-> 5,   d |-> 12],  [n |-> 25,  d |-> 1],   [n |-> -1,  d |-> 2],
       [n |-> 81,  d |-> 112], [n |-> 5,   d |-> 7],   [n |-> 1,   d |-> 3],
       [n |-> -2,  d |-> 1],   [n |-> 3,   d |-> 8] >>

\* the random source's next state
Advance(x) == (x * 5 + 3) % RngMod

\* the state after k draws
RECURSIVE AdvanceBy(_, _)
AdvanceBy(x, k) == IF k = 0 THEN x ELSE AdvanceBy(Advance(x), k - 1)

\* np.random.normal(loc, scale) drawn in state x: loc + scale * z
Normal(x, loc, scale) ==
    LET z == Deviates[(x % Len(Deviates)) + 1]
    IN  loc + MulDiv(scale, z.n, z.d)

-----------------------------------------------------------------------------
(* create_sample_emissions_data *)

\* the (mean, spread) pairs of the five pollutants, after and before the
\* policy start, in the order the source draws them
Pollutants ==
    << [name |-> "pm25", after |-> <<30 * Unit, 8 * Unit>>,
                         before |-> <<40 * Unit, 10 * Unit>>],
       [name |-> "pm10", after |-> <<45 * Unit, 12 * Unit>>,
                         before |-> <<55 * Unit, 15 * Unit>>],
       [name |-> "o3",   after |-> <<40 * Unit, 15 * Unit>>,
                         before |-> <<50 * Unit, 20 * Unit>>],
       [name |-> "no2",  after |-> <<20 * Unit, 6 * Unit>>,
                         before |-> <<30 * Unit, 8 * Unit>>],
       [name |-> "co",   after |-> <<(6 * Unit) \div 10, (2 * Unit) \div 10>>,
                         before |-> <<Unit, (3 * Unit) \div 10>>] >>

\* np.where(dates >= congestion_start, normal(after, n), normal(before, n))
\* at row i of n for pollutant j: both arrays are drawn in full, the after
\* array first, and the row takes its element of one of them
Pollutant(x, ts, n, i, j) ==
    LET p == Pollutants[j]
        a == Normal(AdvanceBy(x, (2 * j - 2) * n + i - 1), p.after[1], p.after[2])
        b == Normal(AdvanceBy(x, (2 * j - 1) * n + i - 1), p.before[1], p.before[2])
    IN  IF ts >= congestion_start THEN a ELSE b

EmissionsRow(x, dates, i) ==
    LET ts == dates[i]
        n  == Len(dates)
    IN  [ date |-> ts,
          pm25 |-> Pollutant(x, ts, n, i, 1),
          pm10 |-> Pollutant(x, ts, n, i, 2),
          o3   |-> Pollutant(x, ts, n, i, 3),
          no2  |-> Pollutant(x, ts, n, i, 4),
          co   |-> Pollutant(x, ts, n, i, 5),
          congestion_pricing |-> CongestionPricing(ts),
          period |-> PeriodLabel(CongestionPricing(ts)) ]

\* the call in random state x: what it returns and the state it leaves
create_sample_emissions_data(x, start_date, end_date) ==
    LET dates == date_range(Timestamp(start_date), Timestamp(end_date), 24)
    IN  [ ret |-> [kind |-> "table",
                   rows |-> [i \in 1 .. Len(dates) |-> EmissionsRow(x, dates, i)]],
          rng |-> AdvanceBy(x, 10 * Len(dates)) ]

-----------------------------------------------------------------------------
(* create_sample_traffic_data *)

\* lines 87-102: the base volume of an hour
BaseVolume(ts) ==
    LET hour == HourOf(ts)
        peak == hour \in {7, 8, 9} \/ hour \in {17, 18, 19}
        b0 == IF peak THEN 1200 * Unit
              ELSE IF hour \in 10 .. 16 THEN 800 * Unit
              ELSE 400 * Unit
        b1 == IF DayOfWeek(ts) >= 5 THEN MulDiv(b0, 7, 10) ELSE b0
    IN  IF ts >= congestion_start
        THEN MulDiv(b1, 100 - (IF peak THEN 20 ELSE 15), 100)
        ELSE b1

\* line 115, on the volume it is given
CongestionLevel(volume) ==
    IF volume > 1000 * Unit THEN "High"
    ELSE IF volume > 600 * Unit THEN "Medium"
    ELSE "Low"

\* the drawn volume as it would be without its floor
DrawVolumeUnfloored(x, base_volume) == Normal(x, base_volume, base_volume \div 10)

\* line 105: the drawn volume, floored at 0
DrawVolume(x, base_volume) == Max(0, Normal(x, base_volume, base_volume \div 10))

\* line 108
TravelTime(x, volume) == 20 * Unit + (volume \div 100) * 2 + Normal(x, 0, 2 * Unit)

\* line 113
StoredTravelTime(travel_time) == Max(5 * Unit, travel_time)

\* line 114
Speed(volume) == Max(5 * Unit, 30 * Unit - volume \div 100)

\* lines 81-127 for one timestamp: two draws, volume then travel-time noise
TrafficRow(x, ts) ==
    LET volume == DrawVolume(x, BaseVolume(ts))
        travel_time == TravelTime(Advance(x), volume)
    IN  [ timestamp |-> ts,
          volume |-> PyInt(volume),
          travel_time |-> StoredTravelTime(travel_time),
          speed |-> Speed(volume),
          congestion_level |-> CongestionLevel(volume),
          date |-> ts,
          hour |-> HourOf(ts),
          day_of_week |-> DayOfWeek(ts),
          day_name |-> DayName(ts),
          month |-> MonthOf(ts),
          congestion_pricing |-> CongestionPricing(ts),
          period |-> PeriodLabel(CongestionPricing(ts)) ]

\* the loop of line 81: rows i .. Len(dates) appended to acc
RECURSIVE TrafficLoop(_, _, _, _)
TrafficLoop(x, dates, i, acc) ==
    IF i > Len(dates) THEN [rows |-> acc, rng |-> x]
    ELSE TrafficLoop(AdvanceBy(x, 2), dates, i + 1,
                     Append(acc, TrafficRow(x, dates[i])))

\* pd.DataFrame([]) has no columns: line 121 then raises KeyError
create_sample_traffic_data(x, start_date, end_date) ==
    LET dates == date_range(Timestamp(start_date), Timestamp(end_date), 1)
        loop  == TrafficLoop(x, dates, 1, << >>)
    IN  IF Len(loop.rows) = 0
        THEN [ ret |-> [kind |-> "raised", error |-> "KeyError"], rng |-> loop.rng ]
        ELSE [ ret |-> [kind |-> "table", rows |-> loop.rows], rng |-> loop.rng ]

-----------------------------------------------------------------------------
(* create_sample_mta_data *)

\* lines 156-181: base ridership <<subway, bus>> of a day
BaseRiders(ts) ==
    LET weekday == DayOfWeek(ts) < 5
        s0 == IF weekday THEN 5500000 * Unit ELSE 3500000 * Unit
        b0 == IF weekday THEN 2200000 * Unit ELSE 1500000 * Unit
        active == ts >= congestion_start
        s1 == IF active THEN MulDiv(s0, 110, 100) ELSE s0
        b1 == IF active THEN MulDiv(b0, 108, 100) ELSE b0
        month == MonthOf(ts)
        seasonal == IF month \in {12, 1, 2} THEN 95
                    ELSE IF month \in {6, 7, 8} THEN 90
                    ELSE 100
    IN  << MulDiv(s1, seasonal, 100), MulDiv(b1, seasonal, 100) >>

\* lines 184-185: a rider count drawn around its base, floored at 0
DrawRiders(x, base) == Max(0, Normal(x, base, MulDiv(base, 5, 100)))

\* the total as it would be if rounded to the nearest integer
TotalRidersRounded(subway_riders, bus_riders) ==
    PyInt(subway_riders + bus_riders + Unit \div 2)

\* line 191
TotalRiders(subway_riders, bus_riders) == PyInt(subway_riders + bus_riders)

\* lines 152-202 for one day: two draws, subway then bus
MtaRow(x, ts) ==
    LET base == BaseRiders(ts)
        subway_riders == DrawRiders(x, base[1])
        bus_riders == DrawRiders(Advance(x), base[2])
    IN  [ date |-> ts,
          subway_riders |-> PyInt(subway_riders),
          bus_riders |-> PyInt(bus_riders),
          total_riders |-> TotalRiders(subway_riders, bus_riders),
          day_of_week |-> DayOfWeek(ts),
          day_name |-> DayName(ts),
          month |-> MonthOf(ts),
          congestion_pricing |-> CongestionPricing(ts),
          period |-> PeriodLabel(CongestionPricing(ts)) ]

RECURSIVE MtaLoop(_, _, _, _)
MtaLoop(x, dates, i, acc) ==
    IF i > Len(dates) THEN [rows |-> acc, rng |-> x]
    ELSE MtaLoop(AdvanceBy(x, 2), dates, i + 1, Append(acc, MtaRow(x, dates[i])))

\* pd.DataFrame([]) has no columns: line 197 then raises KeyError
create_sample_mta_data(x, start_date, end_date) ==
    LET dates == date_range(Timestamp(start_date), Timestamp(end_date), 24)
        loop  == MtaLoop(x, dates, 1, << >>)
    IN  IF Len(loop.rows) = 0
        THEN [ ret |-> [kind |-> "raised", error |-> "KeyError"], rng |-> loop.rng ]
        ELSE [ ret |-> [kind |-> "table", rows |-> loop.rows], rng |-> loop.rng ]

-----------------------------------------------------------------------------
(* The generators as a state machine *)

\* the date strings the calls are made with
SampleDates ==
    { <<2023, 1, 1>>, <<2023, 1, 2>>, <<2023, 5, 30>>, <<2023, 5, 31>>,
      <<2023, 6, 1>>, <<2023, 6, 2>>, <<2023, 6, 3>>, <<2023, 6, 4>> }

\* pairs of dates at most MaxSpanDays apart, in either order
DatePairs ==
    { p \in SampleDates \X SampleDates :
        Abs(ToOrdinal(p[2]) - ToOrdinal(p[1])) <= MaxSpanDays }

Init ==
    /\ rng \in 0 .. RngMod - 1
    /\ call = [fn |-> "none"]
    /\ ret = [kind |-> "none"]
    /\ stdout = << >>

Generate(fn, r, p) ==
    /\ call' = [fn |-> fn, start_date |-> p[1], end_date |-> p[2]]
    /\ ret' = r.ret
    /\ rng' = r.rng
    /\ UNCHANGED stdout

CallEmissions ==
    \E p \in DatePairs :
        Generate("create_sample_emissions_data",
                 create_sample_emissions_data(rng, p[1], p[2]), p)

CallTraffic ==
    \E p \in DatePairs :
        Generate("create_sample_traffic_data",
                 create_sample_traffic_data(rng, p[1], p[2]), p)

CallMta ==
    \E p \in DatePairs :
        Generate("create_sample_mta_data",
                 create_sample_mta_data(rng, p[1], p[2]), p)

Next == CallEmissions \/ CallTraffic \/ CallMta

Spec == Init /\ [][Next]_vars

-----------------------------------------------------------------------------
(* Floats of the statistics: exact fractions, nan and the infinities *)

RECURSIVE GCD(_, _)
GCD(a, b) == IF b = 0 THEN a ELSE GCD(b, a % b)

Sign(n) == IF n > 0 THEN 1 ELSE IF n < 0 THEN -1 ELSE 0

NaN == [k |-> "nan"]

Inf(s) == [k |-> "inf", s |-> s]

\* the fraction n / d, d # 0, in lowest terms with a positive denominator
Num(n, d) ==
    LET g == GCD(Abs(n), Abs(d))
    IN  [k |-> "num", n |-> Sign(d) * (n \div g), d |-> Abs(d) \div g]

SignOf(a) == IF a.k = "inf" THEN a.s ELSE Sign(a.n)

FNeg(a) ==
    IF a.k = "nan" THEN NaN
    ELSE IF a.k = "inf" THEN Inf(-a.s)
    ELSE Num(-a.n, a.d)

FAdd(a, b) ==
    IF a.k = "nan" \/ b.k = "nan" THEN NaN
    ELSE IF a.k = "inf" /\ b.k = "inf" THEN (IF a.s = b.s THEN a ELSE NaN)
    ELSE IF a.k = "inf" THEN a
    ELSE IF b.k = "inf" THEN b
    ELSE Num(a.n * b.d + b.n * a.d, a.d * b.d)

FSub(a, b) == FAdd(a, FNeg(b))

FMul(a, b) ==
    IF a.k = "nan" \/ b.k = "nan" THEN NaN
    ELSE IF a.k = "inf" \/ b.k = "inf"
         THEN (IF SignOf(a) * SignOf(b) = 0 THEN NaN
               ELSE Inf(SignOf(a) * SignOf(b)))
    ELSE Num(a.n * b.n, a.d * b.d)

\* float64 division with numpy's warnings off: x / 0 is an infinity, 0 / 0 nan
FDiv(a, b) ==
    IF a.k = "nan" \/ b.k = "nan" THEN NaN
    ELSE IF a.k = "inf"
         THEN (IF b.k = "inf" THEN NaN
               ELSE Inf(IF b.n < 0 THEN -a.s ELSE a.s))
    ELSE IF b.k = "inf" THEN Num(0, 1)
    ELSE IF b.n = 0 THEN (IF a.n = 0 THEN NaN ELSE Inf(Sign(a.n)))
    ELSE Num(a.n * b.d, a.d * b.n)

\* x == 0 and x < y on floats: false when nan is involved
FIsZero(a) == a.k = "num" /\ a.n = 0

FLess(a, b) ==
    /\ a.k # "nan" /\ b.k # "nan"
    /\ IF a.k = "inf" THEN a.s < 0 /\ ~(b.k = "inf" /\ b.s < 0)
       ELSE IF b.k = "inf" THEN b.s > 0
       ELSE a.n * b.d < b.n * a.d

RECURSIVE Sum(_)
Sum(s) == IF Len(s) = 0 THEN 0 ELSE Head(s) + Sum(Tail(s))

RECURSIVE SumSq(_)
SumSq(s) == IF Len(s) = 0 THEN 0 ELSE Head(s) * Head(s) + SumSq(Tail(s))

\* np.mean: nan for an empty sample
Mean(s) == IF Len(s) = 0 THEN NaN ELSE Num(Sum(s), Len(s))

\* the sum of squared deviations from the mean
SumSqDev(s) == FSub(Num(SumSq(s), 1), Num(Sum(s) * Sum(s), Len(s)))

\* np.var, ddof = 0: nan for an empty sample
Var(s) == IF Len(s) = 0 THEN NaN ELSE FDiv(SumSqDev(s), Num(Len(s), 1))

-----------------------------------------------------------------------------
(* calculate_percentage_change and perform_statistical_test *)

\* the percentage change as it would be without the zero-mean guard
percentage_change_unguarded(before_data, after_data) ==
    LET before_mean == Mean(before_data)
        after_mean  == Mean(after_data)
    IN  FMul(FDiv(FSub(after_mean, before_mean), before_mean), Num(100, 1))

calculate_percentage_change(before_data, after_data) ==
    LET before_mean == Mean(before_data)
        after_mean  == Mean(after_data)
    IN  IF FIsZero(before_mean) THEN Num(0, 1)
        ELSE FMul(FDiv(FSub(after_mean, before_mean), before_mean), Num(100, 1))

\* a root d = num / sqrt(radicand) kept as its sign and its square
Rooted(num, radicand) ==
    LET q == FDiv(FMul(num, num), radicand)
    IN  IF q.k = "nan" THEN NaN ELSE [k |-> "root", s |-> SignOf(num), sq |-> q]

\* scipy.stats.ttest_ind(a, b): Student's t with pooled variance; the sample
\* variances divide by n - 1, so a sample of one element gives nan
t_statistic(a, b) ==
    LET n1 == Len(a)
        n2 == Len(b)
        v1 == IF n1 = 0 THEN NaN ELSE FDiv(SumSqDev(a), Num(n1 - 1, 1))
        v2 == IF n2 = 0 THEN NaN ELSE FDiv(SumSqDev(b), Num(n2 - 1, 1))
        svar == FDiv(FAdd(FMul(Num(n1 - 1, 1), v1), FMul(Num(n2 - 1, 1), v2)),
                     Num(n1 + n2 - 2, 1))
        se2 == FMul(svar, FAdd(FDiv(Num(1, 1), Num(n1, 1)),
                               FDiv(Num(1, 1), Num(n2, 1))))
    IN  Rooted(FSub(Mean(a), Mean(b)), se2)

\* the two-tailed p-value of t: nan for nan, 0 for an infinite t, 1 for t = 0,
\* and otherwise a value of the t distribution, which is left symbolic
p_value(t, df) ==
    IF t.k = "nan" THEN NaN
    ELSE IF t.sq.k = "inf" THEN Num(0, 1)
    ELSE IF FIsZero(t.sq) THEN Num(1, 1)
    ELSE [k |-> "tdist", sq |-> t.sq, df |-> df]

\* p_value < alpha; below says which way a symbolic p-value compares
Significant(p, alpha, below) ==
    IF p.k = "tdist" THEN below ELSE FLess(p, alpha)

\* lines 254-257
cohens_d(before_data, after_data) ==
    LET n1 == Len(before_data)
        n2 == Len(after_data)
        pooled == FDiv(FAdd(FMul(Num(n1 - 1, 1), Var(before_data)),
                            FMul(Num(n2 - 1, 1), Var(after_data))),
                       Num(n1 + n2 - 2, 1))
    IN  Rooted(FSub(Mean(after_data), Mean(before_data)), pooled)

\* the whole function: no statement of it raises, whatever the sample sizes
perform_statistical_test(before_data, after_data, alpha, below) ==
    LET t == t_statistic(before_data, after_data)
        p == p_value(t, Len(before_data) + Len(after_data) - 2)
    IN  [ kind |-> "dict",
          t_statistic |-> t,
          p_value |-> p,
          cohens_d |-> cohens_d(before_data, after_data),
          significant |-> Significant(p, alpha, below),
          before_mean |-> Mean(before_data),
          after_mean |-> Mean(after_data),
          percentage_change |->
              calculate_percentage_change(before_data, after_data) ]

-----------------------------------------------------------------------------
(* The statistics as a state machine: the samples are drawn, then compared *)

SampleValues == {-1, 0, 2}

RECURSIVE SeqsUpTo(_, _)
SeqsUpTo(S, n) ==
    IF n = 0 THEN { << >> }
    ELSE LET shorter == SeqsUpTo(S, n - 1)
         IN  shorter \cup { Append(q, v) : q \in shorter, v \in S }

Samples == SeqsUpTo(SampleValues, MaxSampleLen)

StatsInit ==
    /\ rng = 0
    /\ call \in [fn : {"none"}, before_data : Samples, after_data : Samples]
    /\ ret = [kind |-> "none"]
    /\ stdout = << >>

CallPercentageChange ==
    /\ call.fn = "none"
    /\ call' = [call EXCEPT !.fn = "calculate_percentage_change"]
    /\ ret' = [kind |-> "value",
               value |-> calculate_percentage_change(call.before_data,
                                                     call.after_data)]
    /\ UNCHANGED <<rng, stdout>>

CallStatisticalTest ==
    /\ call.fn = "none"
    /\ \E below \in BOOLEAN :
        /\ call' = [call EXCEPT !.fn = "perform_statistical_test"]
        /\ ret' = perform_statistical_test(call.before_data, call.after_data,
                                           Num(5, 100), below)
    /\ UNCHANGED <<rng, stdout>>

StatsNext == CallPercentageChange \/ CallStatisticalTest

StatsSpec == StatsInit /\ [][StatsNext]_vars

-----------------------------------------------------------------------------
(* print_analysis_summary *)

\* f"{x:+.2f}": the sign, and the hundredths after rounding half to even
Format2f(x) ==
    IF x.k = "nan" THEN [sign |-> "+", text |-> "nan"]
    ELSE LET scaled == Abs(x.n) * 100
             q == scaled \div x.d
             r == scaled % x.d
             h == IF 2 * r > x.d \/ (2 * r = x.d /\ q % 2 = 1) THEN q + 1 ELSE q
         IN  [sign |-> IF x.n < 0 THEN "-" ELSE "+", hundredths |-> h]

\* the negative selection as it would be with zero included
NonPositiveChanges(rows) == SelectSeq(rows, LAMBDA r : r.change_pct <= 0)

\* df[df['change_pct'] > 0] and df[df['change_pct'] < 0]: rows kept in order
PositiveChanges(rows) == SelectSeq(rows, LAMBDA r : r.change_pct > 0)

NegativeChanges(rows) == SelectSeq(rows, LAMBDA r : r.change_pct < 0)

RemoveAt(rows, i) == [k \in 1 .. Len(rows) - 1 |-> IF k < i THEN rows[k] ELSE rows[k + 1]]

\* the first row holding the largest value
FirstLargest(rows) ==
    CHOOSE i \in 1 .. Len(rows) :
        /\ \A k \in 1 .. Len(rows) : rows[k].change_pct <= rows[i].change_pct
        /\ \A k \in 1 .. i - 1 : rows[k].change_pct < rows[i].change_pct

\* the first row holding the smallest value
FirstSmallest(rows) ==
    CHOOSE i \in 1 .. Len(rows) :
        /\ \A k \in 1 .. Len(rows) : rows[k].change_pct >= rows[i].change_pct
        /\ \A k \in 1 .. i - 1 : rows[k].change_pct > rows[i].change_pct

\* DataFrame.nlargest(n, 'change_pct'): descending, ties in table order
RECURSIVE nlargest(_, _)
nlargest(n, rows) ==
    IF n = 0 \/ Len(rows) = 0 THEN << >>
    ELSE LET i == FirstLargest(rows)
         IN  <<rows[i]>> \o nlargest(n - 1, RemoveAt(rows, i))

\* DataFrame.nsmallest(n, 'change_pct'): ascending, ties in table order
RECURSIVE nsmallest(_, _)
nsmallest(n, rows) ==
    IF n = 0 \/ Len(rows) = 0 THEN << >>
    ELSE LET i == FirstSmallest(rows)
         IN  <<rows[i]>> \o nsmallest(n - 1, RemoveAt(rows, i))

\* one printed line per selected row, under its mark
RowLines(mark, rows) ==
    [k \in 1 .. Len(rows) |->
        [line |-> mark, metric |-> rows[k].metric,
         change_pct |-> Format2f(Num(rows[k].change_pct, 1))]]

\* lines 353-356
TopImprovements(positive_changes) ==
    IF Len(positive_changes) > 0
    THEN <<[line |-> "Top improvements:"]>>
             \o RowLines("improvement", nlargest(3, positive_changes))
    ELSE << >>

\* lines 358-361
AreasOfConcern(negative_changes) ==
    IF Len(negative_changes) > 0
    THEN <<[line |-> "Areas of concern:"]>>
             \o RowLines("concern", nsmallest(3, negative_changes))
    ELSE << >>

ChangeValues(rows) == [k \in 1 .. Len(rows) |-> rows[k].change_pct]

\* lines 344-361
SummaryStatistics(summary_df) ==
    IF "change_pct" \in summary_df.columns
    THEN LET positive_changes == PositiveChanges(summary_df.rows)
             negative_changes == NegativeChanges(summary_df.rows)
         IN  << [line |-> "Average change:",
                 value |-> Format2f(Mean(ChangeValues(summary_df.rows)))],
                [line |-> "Positive changes:", count |-> Len(positive_changes)],
                [line |-> "Negative changes:", count |-> Len(negative_changes)] >>
                 \o TopImprovements(positive_changes)
                 \o AreasOfConcern(negative_changes)
    ELSE << >>

\* everything the call prints, line by line
print_analysis_summary(summary_df) ==
    << [line |-> "rule"],
       [line |-> "NYC CONGESTION PRICING ANALYSIS SUMMARY"],
       [line |-> "rule"],
       [line |-> "Total metrics analyzed:", count |-> Len(summary_df.rows)],
       [line |-> "Analysis period:",
        value |-> IF "date" \in summary_df.columns THEN "date" ELSE "N/A"] >>
        \o SummaryStatistics(summary_df)
        \o << [line |-> "rule"] >>

-----------------------------------------------------------------------------
(* The report as a state machine: a summary table is built, then printed *)

ChangeValuesDrawn == {-2, -1, 0, 1, 3}

\* row k is metric k; without a change_pct column the values are not read
SummaryTables ==
    { [columns |-> cols,
       rows |-> [k \in 1 .. Len(vals) |-> [metric |-> k, change_pct |-> vals[k]]]] :
        cols \in {{"metric", "change_pct"}, {"metric"}},
        vals \in SeqsUpTo(ChangeValuesDrawn, MaxRows) }

ReportInit ==
    /\ rng = 0
    /\ call \in [fn : {"none"}, summary_df : SummaryTables]
    /\ ret = [kind |-> "none"]
    /\ stdout = << >>

CallPrintSummary ==
    /\ call.fn = "none"
    /\ call' = [call EXCEPT !.fn = "print_analysis_summary"]
    /\ stdout' = print_analysis_summary(call.summary_df)
    /\ ret' = [kind |-> "value", value |-> "None"]
    /\ UNCHANGED rng

ReportNext == CallPrintSummary

ReportSpec == ReportInit /\ [][ReportNext]_vars

-----------------------------------------------------------------------------
(* Properties of the generators, checked under Spec *)

GeneratorFns ==
    { "create_sample_emissions_data", "create_sample_traffic_data",
      "create_sample_mta_data" }

Returned(fn) == call.fn = fn /\ ret.kind = "table"

RowsOf(fn) == IF Returned(fn) THEN { ret.rows[i] : i \in DOMAIN ret.rows } ELSE {}

\* the days from the call's start_date to its end_date
SpanDays == ToOrdinal(call.end_date) - ToOrdinal(call.start_date)

\* C1: in every row of every generated table the period label is 'After CP'
\* iff the congestion_pricing flag is true iff the row's timestamp is at or
\* after 2023-06-01 00:00.
C1_PeriodFollowsPolicyStart ==
    \A fn \in GeneratorFns : \A r \in RowsOf(fn) :
        /\ r.period \in {"After CP", "Before CP"}
        /\ (r.period = "After CP") <=> r.congestion_pricing
        /\ r.congestion_pricing <=> (r.date >= Timestamp(<<2023, 6, 1>>))

\* a traffic table with the hour of the policy start labelled After and the
\* hour before it labelled Before
C1_Witness ==
    /\ \E r \in RowsOf("create_sample_traffic_data") :
          r.date = Timestamp(<<2023, 6, 1>>) /\ r.period = "After CP"
    /\ \E r \in RowsOf("create_sample_traffic_data") :
          r.date = Timestamp(<<2023, 6, 1>>) - 1 /\ r.period = "Before CP"

\* C2: in every traffic row the stored congestion_level is the threshold
\* bucket of the stored volume: High iff volume > 1000, Medium iff
\* 600 < volume <= 1000, Low iff volume <= 600.
C2_LevelMatchesStoredVolume ==
    \A r \in RowsOf("create_sample_traffic_data") :
        /\ (r.congestion_level = "High") <=> (r.volume > 1000)
        /\ (r.congestion_level = "Medium") <=> (r.volume > 600 /\ r.volume <= 1000)
        /\ (r.congestion_level = "Low") <=> (r.volume <= 600)

\* C4: a generator called with end_date before start_date fails with
\* InvalidRangeError: it returns no table and raises nothing else.
C4_ReversedRangeRaisesInvalidRange ==
    (call.fn \in GeneratorFns /\ SpanDays < 0) =>
        (ret.kind = "raised" /\ ret.error = "InvalidRangeError")

\* C6: in every traffic row, whatever was drawn, volume >= 0,
\* travel_time >= 5 and speed >= 5.
C6_TrafficFloors ==
    \A r \in RowsOf("create_sample_traffic_data") :
        /\ r.volume >= 0
        /\ r.travel_time >= 5 * Unit
        /\ r.speed >= 5 * Unit

\* a traffic table in which each of the three floors is the stored value
C6_Witness ==
    /\ \E r \in RowsOf("create_sample_traffic_data") :
          r.volume = 0 /\ r.congestion_level = "Low"
    /\ \E r \in RowsOf("create_sample_traffic_data") : r.travel_time = 5 * Unit
    /\ \E r \in RowsOf("create_sample_traffic_data") : r.speed = 5 * Unit

\* the rows of the returned table run from the start date to the end date in
\* steps of `step` hours
Spans(step) ==
    /\ Len(ret.rows) = (24 * SpanDays) \div step + 1
    /\ ret.rows[1].date = Timestamp(call.start_date)
    /\ ret.rows[Len(ret.rows)].date = Timestamp(call.end_date)
    /\ \A i \in 1 .. Len(ret.rows) - 1 :
          ret.rows[i + 1].date = ret.rows[i].date + step

\* C7: for start_date <= end_date that are D days apart the emissions and
\* ridership tables have D + 1 daily rows and the traffic table 24 * D + 1
\* hourly rows, both ends included, each row one step after the one before.
C7_RangeInclusiveBothEnds ==
    (call.fn \in GeneratorFns /\ SpanDays >= 0) =>
        /\ ret.kind = "table"
        /\ IF call.fn = "create_sample_traffic_data" THEN Spans(1) ELSE Spans(24)

\* the 25 hourly rows of '2023-01-01' to '2023-01-02'
C7_Witness ==
    /\ Returned("create_sample_traffic_data")
    /\ call.start_date = <<2023, 1, 1>> /\ call.end_date = <<2023, 1, 2>>
    /\ Len(ret.rows) = 25

\* C9: no row of the emissions table has a negative pm25, pm10, o3, no2 or
\* co value.
C9_EmissionsNonNegative ==
    \A r \in RowsOf("create_sample_emissions_data") :
        r.pm25 >= 0 /\ r.pm10 >= 0 /\ r.o3 >= 0 /\ r.no2 >= 0 /\ r.co >= 0

\* C10: in every ridership row the three counts are non-negative and
\* total_riders exceeds subway_riders + bus_riders by 0 or by 1.
C10_TotalWithinOneOfParts ==
    \A r \in RowsOf("create_sample_mta_data") :
        /\ r.subway_riders >= 0 /\ r.bus_riders >= 0 /\ r.total_riders >= 0
        /\ r.total_riders - (r.subway_riders + r.bus_riders) \in {0, 1}

\* a ridership row whose total is one more than the sum of its parts
C10_Witness ==
    \E r \in RowsOf("create_sample_mta_data") :
        /\ r.subway_riders > 0 /\ r.bus_riders > 0
        /\ r.total_riders = r.subway_riders + r.bus_riders + 1

-----------------------------------------------------------------------------
(* Properties of the statistics, checked under StatsSpec *)

\* C3: perform_statistical_test with fewer than 2 observations in either
\* sample fails with InsufficientDataError and returns no result.
C3_SmallSampleRaisesInsufficientData ==
    (call.fn = "perform_statistical_test"
        /\ (Len(call.before_data) < 2 \/ Len(call.after_data) < 2)) =>
        (ret.kind = "raised" /\ ret.error = "InsufficientDataError")

-----------------------------------------------------------------------------
(* Properties of the report, checked under ReportSpec *)

HasLine(text) == \E i \in DOMAIN stdout : stdout[i].line = text

\* the metrics listed under a mark, in printed order
Listed(mark) ==
    LET lines == SelectSeq(stdout, LAMBDA l : l.line = mark)
    IN  [k \in 1 .. Len(lines) |-> lines[k].metric]

Min(a, b) == IF a <= b THEN a ELSE b

\* the block lists `want` rows of the table without repeats, each satisfying
\* Qualifies, and no qualifying row left out outranks a listed one
ListsTop(mark, rows, want, Qualifies(_), Outranks(_, _)) ==
    LET listed == Listed(mark)
        ids == { listed[k] : k \in DOMAIN listed }
    IN  /\ Len(listed) = want
        /\ Cardinality(ids) = want
        /\ \A m \in ids : m \in DOMAIN rows /\ Qualifies(rows[m].change_pct)
        /\ \A m \in ids : \A o \in DOMAIN rows \ ids :
              Qualifies(rows[o].change_pct) =>
                  ~Outranks(rows[o].change_pct, rows[m].change_pct)

\* C8: with a change_pct column, 'Areas of concern' is printed iff some row
\* has change_pct < 0 and 'Top improvements' iff some row has change_pct > 0;
\* a printed block lists min(3, qualifying rows) rows, the largest positive
\* and the most negative ones; a row with change_pct = 0 is listed in neither.
C8_ReportBlocks ==
    (call.fn = "print_analysis_summary"
        /\ "change_pct" \in call.summary_df.columns) =>
        LET rows == call.summary_df.rows
            pos == { i \in DOMAIN rows : rows[i].change_pct > 0 }
            neg == { i \in DOMAIN rows : rows[i].change_pct < 0 }
        IN  /\ HasLine("Top improvements:") <=> pos # {}
            /\ HasLine("Areas of concern:") <=> neg # {}
            /\ ListsTop("improvement", rows, Min(3, Cardinality(pos)),
                        LAMBDA c : c > 0, LAMBDA a, b : a > b)
            /\ ListsTop("concern", rows, Min(3, Cardinality(neg)),
                        LAMBDA c : c < 0, LAMBDA a, b : a < b)
            /\ \E i \in DOMAIN stdout :
                  /\ stdout[i].line = "Positive changes:"
                  /\ stdout[i].count = Cardinality(pos)
            /\ \E i \in DOMAIN stdout :
                  /\ stdout[i].line = "Negative changes:"
                  /\ stdout[i].count = Cardinality(neg)

\* a table of four positive rows printed: three improvements are listed and
\* there is no 'Areas of concern' block
C8_Witness ==
    /\ call.fn = "print_analysis_summary"
    /\ "change_pct" \in call.summary_df.columns
    /\ Len(call.summary_df.rows) = 4
    /\ \A i \in 1 .. 4 : call.summary_df.rows[i].change_pct > 0
    /\ Len(Listed("improvement")) = 3
    /\ ~HasLine("Areas of concern:")

====
